---- MODULE Spec2Model ----
(***************************************************************************)
(* A model of the i18n module of the site (src/i18n/translations.ts), of   *)
(* its routing configuration and of the front matter of its blog posts.    *)
(*                                                                         *)
(* Strings are TLA+ strings.  A character outside ASCII is written <uXXXX> *)
(* (its code point in hexadecimal); the encoding is injective, so two      *)
(* strings are equal exactly when the source strings are, and a string is  *)
(* empty exactly when the source string is.                                *)
(***************************************************************************)
EXTENDS Naturals, Sequences

(***************************************************************************)
(* JavaScript values.  Every value is a record [kind, val]; an evaluation  *)
(* that raises is the outcome Throw.                                       *)
(***************************************************************************)
Str(s) == [kind |-> "string", val |-> s]
Num(n) == [kind |-> "number", val |-> n]
Ref(o) == [kind |-> "object", val |-> o]
Undefined == [kind |-> "undefined", val |-> ""]
Null == [kind |-> "null", val |-> ""]
TypeError == [kind |-> "throw", val |-> "TypeError"]

(* ToBoolean: the falsy values are undefined, null, "" and 0. *)
Truthy(v) ==
  CASE v.kind = "undefined" -> FALSE
    [] v.kind = "null" -> FALSE
    [] v.kind = "string" -> v.val # ""
    [] v.kind = "number" -> v.val # "0"
    [] OTHER -> TRUE

Range(s) == {s[i] : i \in 1..Len(s)}

(* An object literal: the own properties of { k1: v1, k2: v2, ... }.  A key *)
(* written twice keeps its last value.                                      *)
ObjectLiteral(entries) ==
  [k \in {e[1] : e \in Range(entries)} |->
     LET last == CHOOSE i \in 1..Len(entries) :
                   /\ entries[i][1] = k
                   /\ \A j \in (i+1)..Len(entries) : entries[j][1] # k
     IN entries[last][2]]

(* export const languages = { en: ..., de: ..., hi: ... } *)
languages_entries ==
  << <<"en", "English">>,
     <<"de", "Deutsch">>,
     <<"hi", "<u0939><u093F><u0928><u094D><u0926><u0940>">> >>

(* translations.en: the object literal of translations.ts lines 10-111, one *)
(* <<key, value>> pair per property, in source order.                      *)
en_entries ==
  << <<"nav.home", "Home">>,
     <<"nav.about", "About">>,
     <<"nav.blog", "Blog">>,
     <<"nav.projects", "Projects">>,
     <<"hero.greeting", "Hi, I'm">>,
     <<"hero.name", "Varij Kapil">>,
     <<"hero.title", "Head of Backend Engineering & Operations">>,
     <<"hero.location", "Bonn, Germany">>,
     <<"hero.description", "I transform legacy systems into scalable, multi-tenant SaaS platforms using Kubernetes and cloud-native architecture.">>,
     <<"hero.cta.about", "Learn more about me">>,
     <<"hero.cta.blog", "Read my blog">>,
     <<"hero.social", "Find me on">>,
     <<"skills.title", "Technical">>,
     <<"skills.titleHighlight", "Skills">>,
     <<"skills.languages", "Languages">>,
     <<"skills.frameworks", "Frameworks">>,
     <<"skills.platform", "Platform & Cloud">>,
     <<"skills.tools", "Tools">>,
     <<"skills.legend.expert", "Expert / Daily use">>,
     <<"skills.legend.advanced", "Advanced">>,
     <<"skills.legend.intermediate", "Familiar">>,
     <<"blog.title", "Latest from the">>,
     <<"blog.titleHighlight", "Blog">>,
     <<"blog.viewAll", "View all posts">>,
     <<"cta.title", "Let's Connect">>,
     <<"cta.description", "Feel free to reach out if you'd like to discuss technology, share ideas, or just say hello.">>,
     <<"cta.contact", "Get in touch">>,
     <<"cta.github", "View GitHub">>,
     <<"footer.rights", "All rights reserved.">>,
     <<"about.title", "About">>,
     <<"about.titleHighlight", "Me">>,
     <<"about.intro", "Hi, I'm">>,
     <<"about.experience", "with">>,
     <<"about.yearsExp", "10+ years">>,
     <<"about.expText", "of experience in software development. Currently based in">>,
     <<"about.location", "Bonn, Germany">>,
     <<"about.description1", "I lead backend engineering and operations teams through complex platform transformations<u2014>turning legacy, single-tenant systems into scalable, globally distributed">>,
     <<"about.multiTenant", "multi-tenant SaaS architectures">>,
     <<"about.description2", "My focus areas include">>,
     <<"about.cloudNative", "cloud-native architecture">>,
     <<"about.description3", ", multi-tenancy patterns,">>,
     <<"about.kubernetes", "Kubernetes">>,
     <<"about.description4", ", platform operations, and guiding teams through both the technical and organizational shifts that SaaSification demands.">>,
     <<"about.yearsExperience", "Years Experience">>,
     <<"about.engineersLed", "Engineers Led">>,
     <<"about.countriesWorked", "Countries Worked">>,
     <<"about.whatIDo", "What I">>,
     <<"about.do", "Do">>,
     <<"about.platformMod", "Platform Modernization">>,
     <<"about.platformModDesc", "Transforming legacy monoliths into microservices using domain-driven design, strangler fig pattern, and modern frameworks like Quarkus.">>,
     <<"about.k8sCloud", "Kubernetes & Cloud-Native">>,
     <<"about.k8sCloudDesc", "Building multi-tenant SaaS on Kubernetes with namespace-per-tenant isolation, geo-replicated infrastructure for global availability.">>,
     <<"about.security", "Security & Compliance">>,
     <<"about.securityDesc", "HashiCorp Vault for secrets management, automated credential rotation. Driving compliance with GDPR, TISAX, and ISO 27001.">>,
     <<"about.gitops", "GitOps & Observability">>,
     <<"about.gitopsDesc", "GitOps practices with Pulumi and Helm. Comprehensive observability with distributed tracing and metrics across all services.">>,
     <<"about.engineering", "Engineering Excellence">>,
     <<"about.engineeringDesc", "AI-driven code reviews with Claude and Qodana. ADRs for architectural decisions. Platform documentation using arc42.">>,
     <<"about.teamDev", "Team & Org Development">>,
     <<"about.teamDevDesc", "Restructuring organizations using Team Topologies. Scaling teams through direct and offshore hiring. Leading team leads.">>,
     <<"about.techSkills", "Technical">>,
     <<"about.skills", "Skills">>,
     <<"about.languages", "Languages">>,
     <<"about.frameworks", "Frameworks">>,
     <<"about.platformCloud", "Platform & Cloud">>,
     <<"about.toolsDevops", "Tools & DevOps">>,
     <<"about.expert", "Expert / Daily use">>,
     <<"about.proficient", "Proficient">>,
     <<"about.workExp", "Work">>,
     <<"about.experience2", "Experience">>,
     <<"about.education", "Education">>,
     <<"about.certifications", "Certifications">>,
     <<"about.uniProjects", "University">>,
     <<"about.projects", "Projects">>,
     <<"about.beyondCode", "Beyond">>,
     <<"about.code", "Code">>,
     <<"about.letsConnect", "Let's Connect">>,
     <<"about.connectText", "Feel free to connect with me on LinkedIn or check out my projects on GitHub. I enjoy discussing technology and sharing knowledge with the community.">>,
     <<"about.getInTouch", "Get in Touch">>,
     <<"projects.title", "Personal">>,
     <<"projects.titleHighlight", "Projects">>,
     <<"projects.description", "A collection of side projects and experiments I've built over the years to solve problems or learn new technologies.">>,
     <<"projects.wantMore", "Want to see more?">>,
     <<"projects.ctaText", "Check out my GitHub profile for more projects, contributions, and code samples.">>,
     <<"projects.viewGithub", "View GitHub Profile">> >>

(* translations.de: the object literal of translations.ts lines 112-213, one *)
(* <<key, value>> pair per property, in source order.                      *)
de_entries ==
  << <<"nav.home", "Startseite">>,
     <<"nav.about", "<u00DC>ber mich">>,
     <<"nav.blog", "Blog">>,
     <<"nav.projects", "Projekte">>,
     <<"hero.greeting", "Hallo, ich bin">>,
     <<"hero.name", "Varij Kapil">>,
     <<"hero.title", "Head of Backend Engineering & Operations">>,
     <<"hero.location", "Bonn, Deutschland">>,
     <<"hero.description", "Ich transformiere Legacy-Systeme in skalierbare, mandantenf<u00E4>hige SaaS-Plattformen mit Kubernetes und Cloud-nativer Architektur.">>,
     <<"hero.cta.about", "Mehr <u00FC>ber mich">>,
     <<"hero.cta.blog", "Zum Blog">>,
     <<"hero.social", "Finde mich auf">>,
     <<"skills.title", "Technische">>,
     <<"skills.titleHighlight", "F<u00E4>higkeiten">>,
     <<"skills.languages", "Sprachen">>,
     <<"skills.frameworks", "Frameworks">>,
     <<"skills.platform", "Plattform & Cloud">>,
     <<"skills.tools", "Tools">>,
     <<"skills.legend.expert", "Experte / T<u00E4>gliche Nutzung">>,
     <<"skills.legend.advanced", "Fortgeschritten">>,
     <<"skills.legend.intermediate", "Vertraut">>,
     <<"blog.title", "Neueste">>,
     <<"blog.titleHighlight", "Blogbeitr<u00E4>ge">>,
     <<"blog.viewAll", "Alle Beitr<u00E4>ge">>,
     <<"cta.title", "Kontakt aufnehmen">>,
     <<"cta.description", "Schreib mir gerne, wenn du <u00FC>ber Technologie diskutieren, Ideen austauschen oder einfach Hallo sagen m<u00F6>chtest.">>,
     <<"cta.contact", "Kontakt">>,
     <<"cta.github", "GitHub ansehen">>,
     <<"footer.rights", "Alle Rechte vorbehalten.">>,
     <<"about.title", "<u00DC>ber">>,
     <<"about.titleHighlight", "Mich">>,
     <<"about.intro", "Hallo, ich bin">>,
     <<"about.experience", "mit">>,
     <<"about.yearsExp", "10+ Jahren">>,
     <<"about.expText", "Erfahrung in der Softwareentwicklung. Derzeit wohnhaft in">>,
     <<"about.location", "Bonn, Deutschland">>,
     <<"about.description1", "Ich leite Backend-Engineering- und Operations-Teams durch komplexe Plattformtransformationen <u2013> von veralteten Single-Tenant-Systemen zu skalierbaren, global verteilten">>,
     <<"about.multiTenant", "mandantenf<u00E4>higen SaaS-Architekturen">>,
     <<"about.description2", "Meine Schwerpunkte sind">>,
     <<"about.cloudNative", "Cloud-native Architektur">>,
     <<"about.description3", ", Multi-Tenancy-Muster,">>,
     <<"about.kubernetes", "Kubernetes">>,
     <<"about.description4", ", Plattform-Operations und die Begleitung von Teams durch technische und organisatorische Ver<u00E4>nderungen, die eine SaaS-Transformation erfordert.">>,
     <<"about.yearsExperience", "Jahre Erfahrung">>,
     <<"about.engineersLed", "Ingenieure geleitet">>,
     <<"about.countriesWorked", "L<u00E4>nder gearbeitet">>,
     <<"about.whatIDo", "Was ich">>,
     <<"about.do", "mache">>,
     <<"about.platformMod", "Plattform-Modernisierung">>,
     <<"about.platformModDesc", "Transformation von Legacy-Monolithen zu Microservices mit Domain-Driven Design, Strangler-Fig-Pattern und modernen Frameworks wie Quarkus.">>,
     <<"about.k8sCloud", "Kubernetes & Cloud-Native">>,
     <<"about.k8sCloudDesc", "Aufbau von mandantenf<u00E4>higen SaaS-Plattformen auf Kubernetes mit Namespace-per-Tenant-Isolation und geo-replizierter Infrastruktur.">>,
     <<"about.security", "Sicherheit & Compliance">>,
     <<"about.securityDesc", "HashiCorp Vault f<u00FC>r Secrets-Management, automatisierte Credential-Rotation. Einhaltung von GDPR, TISAX und ISO 27001.">>,
     <<"about.gitops", "GitOps & Observability">>,
     <<"about.gitopsDesc", "GitOps-Praktiken mit Pulumi und Helm. Umfassende Observability mit verteiltem Tracing und Metriken <u00FC>ber alle Services.">>,
     <<"about.engineering", "Engineering Excellence">>,
     <<"about.engineeringDesc", "KI-gest<u00FC>tzte Code-Reviews mit Claude und Qodana. ADRs f<u00FC>r Architekturentscheidungen. Plattform-Dokumentation mit arc42.">>,
     <<"about.teamDev", "Team- & Org-Entwicklung">>,
     <<"about.teamDevDesc", "Organisationsrestrukturierung mit Team Topologies. Teamskalierung durch direkte und Offshore-Einstellungen. F<u00FC>hrung von Teamleitern.">>,
     <<"about.techSkills", "Technische">>,
     <<"about.skills", "F<u00E4>higkeiten">>,
     <<"about.languages", "Sprachen">>,
     <<"about.frameworks", "Frameworks">>,
     <<"about.platformCloud", "Plattform & Cloud">>,
     <<"about.toolsDevops", "Tools & DevOps">>,
     <<"about.expert", "Experte / T<u00E4>gliche Nutzung">>,
     <<"about.proficient", "Fortgeschritten">>,
     <<"about.workExp", "Berufs">>,
     <<"about.experience2", "erfahrung">>,
     <<"about.education", "Ausbildung">>,
     <<"about.certifications", "Zertifizierungen">>,
     <<"about.uniProjects", "Universit<u00E4>ts">>,
     <<"about.projects", "projekte">>,
     <<"about.beyondCode", "<u00DC>ber den">>,
     <<"about.code", "Code hinaus">>,
     <<"about.letsConnect", "Kontakt aufnehmen">>,
     <<"about.connectText", "Verbinde dich gerne mit mir auf LinkedIn oder schau dir meine Projekte auf GitHub an. Ich freue mich <u00FC>ber Diskussionen <u00FC>ber Technologie und Wissensaustausch.">>,
     <<"about.getInTouch", "Kontakt">>,
     <<"projects.title", "Pers<u00F6>nliche">>,
     <<"projects.titleHighlight", "Projekte">>,
     <<"projects.description", "Eine Sammlung von Nebenprojekten und Experimenten, die ich im Laufe der Jahre gebaut habe, um Probleme zu l<u00F6>sen oder neue Technologien zu lernen.">>,
     <<"projects.wantMore", "Mehr sehen?">>,
     <<"projects.ctaText", "Schau dir mein GitHub-Profil f<u00FC>r weitere Projekte, Beitr<u00E4>ge und Code-Beispiele an.">>,
     <<"projects.viewGithub", "GitHub-Profil ansehen">> >>

(* translations.hi with the navigation strings only. *)
hi_entries_Unfinished ==
  << <<"nav.home", "<u0939><u094B><u092E>">>,
     <<"nav.blog", "<u092C><u094D><u0932><u0949><u0917>">> >>

(* translations.hi: the object literal of translations.ts lines 214-315, one *)
(* <<key, value>> pair per property, in source order.                      *)
hi_entries ==
  << <<"nav.home", "<u0939><u094B><u092E>">>,
     <<"nav.about", "<u092E><u0947><u0930><u0947> <u092C><u093E><u0930><u0947> <u092E><u0947><u0902>">>,
     <<"nav.blog", "<u092C><u094D><u0932><u0949><u0917>">>,
     <<"nav.projects", "<u092A><u094D><u0930><u094B><u091C><u0947><u0915><u094D><u091F><u094D><u0938>">>,
     <<"hero.greeting", "<u0928><u092E><u0938><u094D><u0924><u0947>, <u092E><u0948><u0902> <u0939><u0942><u0901>">>,
     <<"hero.name", "<u0935><u093E><u0930><u093F><u091C> <u0915><u092A><u093F><u0932>">>,
     <<"hero.title", "Head of Backend Engineering & Operations">>,
     <<"hero.location", "<u092C><u0949><u0928>, <u091C><u0930><u094D><u092E><u0928><u0940>">>,
     <<"hero.description", "<u092E><u0948><u0902> Kubernetes <u0914><u0930> <u0915><u094D><u0932><u093E><u0909><u0921>-<u0928><u0947><u091F><u093F><u0935> <u0906><u0930><u094D><u0915><u093F><u091F><u0947><u0915><u094D><u091A><u0930> <u0915><u093E> <u0909><u092A><u092F><u094B><u0917> <u0915><u0930><u0915><u0947> <u0932><u0940><u0917><u0947><u0938><u0940> <u0938><u093F><u0938><u094D><u091F><u092E> <u0915><u094B> <u0938><u094D><u0915><u0947><u0932><u0947><u092C><u0932>, <u092E><u0932><u094D><u091F><u0940>-<u091F><u0947><u0928><u0947><u0902><u091F> SaaS <u092A><u094D><u0932><u0947><u091F><u092B><u0949><u0930><u094D><u092E> <u092E><u0947><u0902> <u092C><u0926><u0932><u0924><u093E> <u0939><u0942><u0901><u0964>">>,
     <<"hero.cta.about", "<u092E><u0947><u0930><u0947> <u092C><u093E><u0930><u0947> <u092E><u0947><u0902> <u091C><u093E><u0928><u0947><u0902>">>,
     <<"hero.cta.blog", "<u092C><u094D><u0932><u0949><u0917> <u092A><u0922><u093C><u0947><u0902>">>,
     <<"hero.social", "<u092E><u0941><u091D><u0947> <u092F><u0939><u093E><u0901> <u0916><u094B><u091C><u0947><u0902>">>,
     <<"skills.title", "<u0924><u0915><u0928><u0940><u0915><u0940>">>,
     <<"skills.titleHighlight", "<u0915><u094C><u0936><u0932>">>,
     <<"skills.languages", "<u092D><u093E><u0937><u093E><u090F><u0902>">>,
     <<"skills.frameworks", "<u092B><u094D><u0930><u0947><u092E><u0935><u0930><u094D><u0915>">>,
     <<"skills.platform", "<u092A><u094D><u0932><u0947><u091F><u092B><u0949><u0930><u094D><u092E> <u0914><u0930> <u0915><u094D><u0932><u093E><u0909><u0921>">>,
     <<"skills.tools", "<u091F><u0942><u0932><u094D><u0938>">>,
     <<"skills.legend.expert", "<u0935><u093F><u0936><u0947><u0937><u091C><u094D><u091E> / <u0926><u0948><u0928><u093F><u0915> <u0909><u092A><u092F><u094B><u0917>">>,
     <<"skills.legend.advanced", "<u0909><u0928><u094D><u0928><u0924>">>,
     <<"skills.legend.intermediate", "<u092A><u0930><u093F><u091A><u093F><u0924>">>,
     <<"blog.title", "<u0928><u0935><u0940><u0928><u0924><u092E>">>,
     <<"blog.titleHighlight", "<u092C><u094D><u0932><u0949><u0917> <u092A><u094B><u0938><u094D><u091F>">>,
     <<"blog.viewAll", "<u0938><u092D><u0940> <u092A><u094B><u0938><u094D><u091F> <u0926><u0947><u0916><u0947><u0902>">>,
     <<"cta.title", "<u0938><u0902><u092A><u0930><u094D><u0915> <u0915><u0930><u0947><u0902>">>,
     <<"cta.description", "<u0905><u0917><u0930> <u0906><u092A> <u0924><u0915><u0928><u0940><u0915> <u092A><u0930> <u091A><u0930><u094D><u091A><u093E> <u0915><u0930><u0928><u093E> <u091A><u093E><u0939><u0924><u0947> <u0939><u0948><u0902>, <u0935><u093F><u091A><u093E><u0930> <u0938><u093E><u091D><u093E> <u0915><u0930><u0928><u093E> <u091A><u093E><u0939><u0924><u0947> <u0939><u0948><u0902>, <u092F><u093E> <u092C><u0938> <u0928><u092E><u0938><u094D><u0924><u0947> <u0915><u0939><u0928><u093E> <u091A><u093E><u0939><u0924><u0947> <u0939><u0948><u0902>, <u0924><u094B> <u092C><u0947><u091D><u093F><u091D><u0915> <u0938><u0902><u092A><u0930><u094D><u0915> <u0915><u0930><u0947><u0902><u0964>">>,
     <<"cta.contact", "<u0938><u0902><u092A><u0930><u094D><u0915> <u0915><u0930><u0947><u0902>">>,
     <<"cta.github", "GitHub <u0926><u0947><u0916><u0947><u0902>">>,
     <<"footer.rights", "<u0938><u0930><u094D><u0935><u093E><u0927><u093F><u0915><u093E><u0930> <u0938><u0941><u0930><u0915><u094D><u0937><u093F><u0924><u0964>">>,
     <<"about.title", "<u092E><u0947><u0930><u0947>">>,
     <<"about.titleHighlight", "<u092C><u093E><u0930><u0947> <u092E><u0947><u0902>">>,
     <<"about.intro", "<u0928><u092E><u0938><u094D><u0924><u0947>, <u092E><u0948><u0902> <u0939><u0942><u0901>">>,
     <<"about.experience", "<u0915><u0947> <u0938><u093E><u0925>">>,
     <<"about.yearsExp", "10+ <u0935><u0930><u094D><u0937><u094B><u0902>">>,
     <<"about.expText", "<u0915><u093E> <u0938><u0949><u092B><u094D><u091F><u0935><u0947><u092F><u0930> <u0921><u0947><u0935><u0932><u092A><u092E><u0947><u0902><u091F> <u0915><u093E> <u0905><u0928><u0941><u092D><u0935><u0964> <u0935><u0930><u094D><u0924><u092E><u093E><u0928> <u092E><u0947><u0902>">>,
     <<"about.location", "<u092C><u0949><u0928>, <u091C><u0930><u094D><u092E><u0928><u0940>">>,
     <<"about.description1", "<u092E><u0948><u0902> <u092C><u0948><u0915><u090F><u0902><u0921> <u0907><u0902><u091C><u0940><u0928><u093F><u092F><u0930><u093F><u0902><u0917> <u0914><u0930> <u0911><u092A><u0930><u0947><u0936><u0902><u0938> <u091F><u0940><u092E><u094B><u0902> <u0915><u093E> <u0928><u0947><u0924><u0943><u0924><u094D><u0935> <u0915><u0930><u0924><u093E> <u0939><u0942><u0901> <u091C><u091F><u093F><u0932> <u092A><u094D><u0932><u0947><u091F><u092B><u0949><u0930><u094D><u092E> <u091F><u094D><u0930><u093E><u0902><u0938><u092B><u0949><u0930><u094D><u092E><u0947><u0936><u0928> <u0915><u0947> <u092E><u093E><u0927><u094D><u092F><u092E> <u0938><u0947><u2014><u0932><u0940><u0917><u0947><u0938><u0940>, <u0938><u093F><u0902><u0917><u0932>-<u091F><u0947><u0928><u0947><u0902><u091F> <u0938><u093F><u0938><u094D><u091F><u092E> <u0915><u094B> <u0938><u094D><u0915><u0947><u0932><u0947><u092C><u0932>, <u0935><u0948><u0936><u094D><u0935><u093F><u0915> <u0930><u0942><u092A> <u0938><u0947> <u0935><u093F><u0924><u0930><u093F><u0924>">>,
     <<"about.multiTenant", "<u092E><u0932><u094D><u091F><u0940>-<u091F><u0947><u0928><u0947><u0902><u091F> SaaS <u0906><u0930><u094D><u0915><u093F><u091F><u0947><u0915><u094D><u091A><u0930>">>,
     <<"about.description2", "<u092E><u0947><u0930><u0947> <u092B><u094B><u0915><u0938> <u0915><u094D><u0937><u0947><u0924><u094D><u0930><u094B><u0902> <u092E><u0947><u0902> <u0936><u093E><u092E><u093F><u0932> <u0939><u0948><u0902>">>,
     <<"about.cloudNative", "<u0915><u094D><u0932><u093E><u0909><u0921>-<u0928><u0947><u091F><u093F><u0935> <u0906><u0930><u094D><u0915><u093F><u091F><u0947><u0915><u094D><u091A><u0930>">>,
     <<"about.description3", ", <u092E><u0932><u094D><u091F><u0940>-<u091F><u0947><u0928><u0947><u0902><u0938><u0940> <u092A><u0948><u091F><u0930><u094D><u0928>,">>,
     <<"about.kubernetes", "Kubernetes">>,
     <<"about.description4", ", <u092A><u094D><u0932><u0947><u091F><u092B><u0949><u0930><u094D><u092E> <u0911><u092A><u0930><u0947><u0936><u0902><u0938>, <u0914><u0930> <u091F><u0940><u092E><u094B><u0902> <u0915><u094B> SaaSification <u0915><u0947> <u0932><u093F><u090F> <u0906><u0935><u0936><u094D><u092F><u0915> <u0924><u0915><u0928><u0940><u0915><u0940> <u0914><u0930> <u0938><u0902><u0917><u0920><u0928><u093E><u0924><u094D><u092E><u0915> <u092C><u0926><u0932><u093E><u0935><u094B><u0902> <u0915><u0947> <u092E><u093E><u0927><u094D><u092F><u092E> <u0938><u0947> <u092E><u093E><u0930><u094D><u0917><u0926><u0930><u094D><u0936><u0928><u0964>">>,
     <<"about.yearsExperience", "<u0935><u0930><u094D><u0937><u094B><u0902> <u0915><u093E> <u0905><u0928><u0941><u092D><u0935>">>,
     <<"about.engineersLed", "<u0907><u0902><u091C><u0940><u0928><u093F><u092F><u0930><u094B><u0902> <u0915><u093E> <u0928><u0947><u0924><u0943><u0924><u094D><u0935>">>,
     <<"about.countriesWorked", "<u0926><u0947><u0936><u094B><u0902> <u092E><u0947><u0902> <u0915><u093E><u092E> <u0915><u093F><u092F><u093E>">>,
     <<"about.whatIDo", "<u092E><u0948><u0902> <u0915><u094D><u092F><u093E>">>,
     <<"about.do", "<u0915><u0930><u0924><u093E> <u0939><u0942><u0901>">>,
     <<"about.platformMod", "<u092A><u094D><u0932><u0947><u091F><u092B><u0949><u0930><u094D><u092E> <u0906><u0927><u0941><u0928><u093F><u0915><u0940><u0915><u0930><u0923>">>,
     <<"about.platformModDesc", "<u0921><u094B><u092E><u0947><u0928>-<u0921><u094D><u0930><u093F><u0935><u0928> <u0921><u093F><u091C><u093C><u093E><u0907><u0928>, <u0938><u094D><u091F><u094D><u0930><u0948><u0902><u0917><u0932><u0930> <u092B><u093F><u0917> <u092A><u0948><u091F><u0930><u094D><u0928>, <u0914><u0930> Quarkus <u091C><u0948><u0938><u0947> <u0906><u0927><u0941><u0928><u093F><u0915> <u092B><u094D><u0930><u0947><u092E><u0935><u0930><u094D><u0915> <u0915><u093E> <u0909><u092A><u092F><u094B><u0917> <u0915><u0930><u0915><u0947> <u0932><u0940><u0917><u0947><u0938><u0940> <u092E><u094B><u0928><u094B><u0932><u093F><u0925> <u0915><u094B> <u092E><u093E><u0907><u0915><u094D><u0930><u094B><u0938><u0930><u094D><u0935><u093F><u0938><u0947><u091C> <u092E><u0947><u0902> <u092C><u0926><u0932><u0928><u093E><u0964>">>,
     <<"about.k8sCloud", "Kubernetes <u0914><u0930> <u0915><u094D><u0932><u093E><u0909><u0921>-<u0928><u0947><u091F><u093F><u0935>">>,
     <<"about.k8sCloudDesc", "<u0928><u0947><u092E><u0938><u094D><u092A><u0947><u0938>-<u092A><u094D><u0930><u0924><u093F>-<u091F><u0947><u0928><u0947><u0902><u091F> <u0906><u0907><u0938><u094B><u0932><u0947><u0936><u0928>, <u0935><u0948><u0936><u094D><u0935><u093F><u0915> <u0909><u092A><u0932><u092C><u094D><u0927><u0924><u093E> <u0915><u0947> <u0932><u093F><u090F> <u091C><u093F><u092F><u094B>-<u0930><u0947><u092A><u094D><u0932><u093F><u0915><u0947><u091F><u0947><u0921> <u0907><u0928><u094D><u092B><u094D><u0930><u093E><u0938><u094D><u091F><u094D><u0930><u0915><u094D><u091A><u0930> <u0915><u0947> <u0938><u093E><u0925> Kubernetes <u092A><u0930> <u092E><u0932><u094D><u091F><u0940>-<u091F><u0947><u0928><u0947><u0902><u091F> SaaS <u092C><u0928><u093E><u0928><u093E><u0964>">>,
     <<"about.security", "<u0938><u0941><u0930><u0915><u094D><u0937><u093E> <u0914><u0930> <u0905><u0928><u0941><u092A><u093E><u0932><u0928>">>,
     <<"about.securityDesc", "<u0938><u0940><u0915><u094D><u0930><u0947><u091F><u094D><u0938> <u092E><u0948><u0928><u0947><u091C><u092E><u0947><u0902><u091F> <u0915><u0947> <u0932><u093F><u090F> HashiCorp Vault, <u0938><u094D><u0935><u091A><u093E><u0932><u093F><u0924> <u0915><u094D><u0930><u0947><u0921><u0947><u0902><u0936><u093F><u092F><u0932> <u0930><u094B><u091F><u0947><u0936><u0928><u0964> GDPR, TISAX, <u0914><u0930> ISO 27001 <u0905><u0928><u0941><u092A><u093E><u0932><u0928><u0964>">>,
     <<"about.gitops", "GitOps <u0914><u0930> Observability">>,
     <<"about.gitopsDesc", "Pulumi <u0914><u0930> Helm <u0915><u0947> <u0938><u093E><u0925> GitOps <u092A><u094D><u0930><u0948><u0915><u094D><u091F><u093F><u0938><u0964> <u0938><u092D><u0940> <u0938><u0930><u094D><u0935><u093F><u0938><u0947><u091C> <u092E><u0947><u0902> <u0921><u093F><u0938><u094D><u091F><u094D><u0930><u093F><u092C><u094D><u092F><u0942><u091F><u0947><u0921> <u091F><u094D><u0930><u0947><u0938><u093F><u0902><u0917> <u0914><u0930> <u092E><u0947><u091F><u094D><u0930><u093F><u0915><u094D><u0938> <u0915><u0947> <u0938><u093E><u0925> <u0935><u094D><u092F><u093E><u092A><u0915> observability<u0964>">>,
     <<"about.engineering", "<u0907><u0902><u091C><u0940><u0928><u093F><u092F><u0930><u093F><u0902><u0917> <u090F><u0915><u094D><u0938><u0940><u0932><u0947><u0902><u0938>">>,
     <<"about.engineeringDesc", "Claude <u0914><u0930> Qodana <u0915><u0947> <u0938><u093E><u0925> AI-<u0921><u094D><u0930><u093F><u0935><u0928> <u0915><u094B><u0921> <u0930><u093F><u0935><u094D><u092F><u0942><u0964> <u0906><u0930><u094D><u0915><u093F><u091F><u0947><u0915><u094D><u091A><u0930> <u0928><u093F><u0930><u094D><u0923><u092F><u094B><u0902> <u0915><u0947> <u0932><u093F><u090F> ADRs<u0964> arc42 <u0915><u093E> <u0909><u092A><u092F><u094B><u0917> <u0915><u0930><u0915><u0947> <u092A><u094D><u0932><u0947><u091F><u092B><u0949><u0930><u094D><u092E> <u0921><u0949><u0915><u094D><u092F><u0942><u092E><u0947><u0902><u091F><u0947><u0936><u0928><u0964>">>,
     <<"about.teamDev", "<u091F><u0940><u092E> <u0914><u0930> <u0938><u0902><u0917><u0920><u0928> <u0935><u093F><u0915><u093E><u0938>">>,
     <<"about.teamDevDesc", "Team Topologies <u0915><u093E> <u0909><u092A><u092F><u094B><u0917> <u0915><u0930><u0915><u0947> <u0938><u0902><u0917><u0920><u0928><u094B><u0902> <u0915><u093E> <u092A><u0941><u0928><u0930><u094D><u0917><u0920><u0928><u0964> <u0921><u093E><u092F><u0930><u0947><u0915><u094D><u091F> <u0914><u0930> <u0911><u092B><u0936><u094B><u0930> <u0939><u093E><u092F><u0930><u093F><u0902><u0917> <u0915><u0947> <u092E><u093E><u0927><u094D><u092F><u092E> <u0938><u0947> <u091F><u0940><u092E><u094B><u0902> <u0915><u093E> <u0938><u094D><u0915><u0947><u0932><u093F><u0902><u0917><u0964> <u091F><u0940><u092E> <u0932><u0940><u0921><u094D><u0938> <u0915><u093E> <u0928><u0947><u0924><u0943><u0924><u094D><u0935><u0964>">>,
     <<"about.techSkills", "<u0924><u0915><u0928><u0940><u0915><u0940>">>,
     <<"about.skills", "<u0915><u094C><u0936><u0932>">>,
     <<"about.languages", "<u092D><u093E><u0937><u093E><u090F><u0902>">>,
     <<"about.frameworks", "<u092B><u094D><u0930><u0947><u092E><u0935><u0930><u094D><u0915>">>,
     <<"about.platformCloud", "<u092A><u094D><u0932><u0947><u091F><u092B><u0949><u0930><u094D><u092E> <u0914><u0930> <u0915><u094D><u0932><u093E><u0909><u0921>">>,
     <<"about.toolsDevops", "<u091F><u0942><u0932><u094D><u0938> <u0914><u0930> DevOps">>,
     <<"about.expert", "<u0935><u093F><u0936><u0947><u0937><u091C><u094D><u091E> / <u0926><u0948><u0928><u093F><u0915> <u0909><u092A><u092F><u094B><u0917>">>,
     <<"about.proficient", "<u0915><u0941><u0936><u0932>">>,
     <<"about.workExp", "<u0915><u093E><u0930><u094D><u092F>">>,
     <<"about.experience2", "<u0905><u0928><u0941><u092D><u0935>">>,
     <<"about.education", "<u0936><u093F><u0915><u094D><u0937><u093E>">>,
     <<"about.certifications", "<u092A><u094D><u0930><u092E><u093E><u0923><u092A><u0924><u094D><u0930>">>,
     <<"about.uniProjects", "<u0935><u093F><u0936><u094D><u0935><u0935><u093F><u0926><u094D><u092F><u093E><u0932><u092F>">>,
     <<"about.projects", "<u092A><u094D><u0930><u094B><u091C><u0947><u0915><u094D><u091F><u094D><u0938>">>,
     <<"about.beyondCode", "<u0915><u094B><u0921> <u0938><u0947>">>,
     <<"about.code", "<u092A><u0930><u0947>">>,
     <<"about.letsConnect", "<u0938><u0902><u092A><u0930><u094D><u0915> <u0915><u0930><u0947><u0902>">>,
     <<"about.connectText", "LinkedIn <u092A><u0930> <u092E><u0941><u091D><u0938><u0947> <u091C><u0941><u0921><u093C><u0947><u0902> <u092F><u093E> GitHub <u092A><u0930> <u092E><u0947><u0930><u0947> <u092A><u094D><u0930><u094B><u091C><u0947><u0915><u094D><u091F><u094D><u0938> <u0926><u0947><u0916><u0947><u0902><u0964> <u092E><u0941><u091D><u0947> <u0924><u0915><u0928><u0940><u0915> <u092A><u0930> <u091A><u0930><u094D><u091A><u093E> <u0915><u0930><u0928><u093E> <u0914><u0930> <u0938><u092E><u0941><u0926><u093E><u092F> <u0915><u0947> <u0938><u093E><u0925> <u091C><u094D><u091E><u093E><u0928> <u0938><u093E><u091D><u093E> <u0915><u0930><u0928><u093E> <u092A><u0938><u0902><u0926> <u0939><u0948><u0964>">>,
     <<"about.getInTouch", "<u0938><u0902><u092A><u0930><u094D><u0915> <u0915><u0930><u0947><u0902>">>,
     <<"projects.title", "<u0935><u094D><u092F><u0915><u094D><u0924><u093F><u0917><u0924>">>,
     <<"projects.titleHighlight", "<u092A><u094D><u0930><u094B><u091C><u0947><u0915><u094D><u091F><u094D><u0938>">>,
     <<"projects.description", "<u0935><u0930><u094D><u0937><u094B><u0902> <u092E><u0947><u0902> <u0938><u092E><u0938><u094D><u092F><u093E><u0913><u0902> <u0915><u094B> <u0939><u0932> <u0915><u0930><u0928><u0947> <u092F><u093E> <u0928><u0908> <u0924><u0915><u0928><u0940><u0915><u094B><u0902> <u0915><u094B> <u0938><u0940><u0916><u0928><u0947> <u0915><u0947> <u0932><u093F><u090F> <u092C><u0928><u093E><u090F> <u0917><u090F> <u0938><u093E><u0907><u0921> <u092A><u094D><u0930><u094B><u091C><u0947><u0915><u094D><u091F><u094D><u0938> <u0914><u0930> <u092A><u094D><u0930><u092F><u094B><u0917><u094B><u0902> <u0915><u093E> <u0938><u0902><u0917><u094D><u0930><u0939><u0964>">>,
     <<"projects.wantMore", "<u0914><u0930> <u0926><u0947><u0916><u0928><u093E> <u091A><u093E><u0939><u0924><u0947> <u0939><u0948><u0902>?">>,
     <<"projects.ctaText", "<u0905><u0927><u093F><u0915> <u092A><u094D><u0930><u094B><u091C><u0947><u0915><u094D><u091F><u094D><u0938>, <u092F><u094B><u0917><u0926><u093E><u0928>, <u0914><u0930> <u0915><u094B><u0921> <u0938><u0948><u0902><u092A><u0932><u094D><u0938> <u0915><u0947> <u0932><u093F><u090F> <u092E><u0947><u0930><u0940> GitHub <u092A><u094D><u0930><u094B><u092B><u093E><u0907><u0932> <u0926><u0947><u0916><u0947><u0902><u0964>">>,
     <<"projects.viewGithub", "GitHub <u092A><u094D><u0930><u094B><u092B><u093E><u0907><u0932> <u0926><u0947><u0916><u0947><u0902>">> >>

(* translations_entries without its last table. *)
translations_entries_NoHindi ==
  << <<"en", ObjectLiteral(en_entries)>>,
     <<"de", ObjectLiteral(de_entries)>> >>

(* export const translations = { en: {...}, de: {...}, hi: {...} } as const *)
translations_entries ==
  << <<"en", ObjectLiteral(en_entries)>>,
     <<"de", ObjectLiteral(de_entries)>>,
     <<"hi", ObjectLiteral(hi_entries)>> >>

VARIABLES
  languages,      \* the module constant languages: code -> display name
  defaultLang,    \* the module constant defaultLang
  translations,   \* the module constant translations: code -> (key -> text)
  call,           \* the last call made: [fn, a1, a2]; t's a1 is the lang its closure captured
  ret             \* what the last call returned, or Throw

vars == <<languages, defaultLang, translations, call, ret>>

(***************************************************************************)
(* The objects a lookup through translations can reach: the translations   *)
(* object, its three tables, and what they inherit from Object.prototype.  *)
(* An object is named by a string.                                         *)
(***************************************************************************)
TableId(l) == "translations." \o l

ObjectPrototypeMethods ==
  {"hasOwnProperty", "isPrototypeOf", "propertyIsEnumerable", "toLocaleString",
   "toString", "valueOf", "__defineGetter__", "__defineSetter__",
   "__lookupGetter__", "__lookupSetter__"}

FunctionPrototypeMethods == {"apply", "bind", "call", "toString"}

ObjectStatics ==
  {"assign", "create", "defineProperties", "defineProperty", "entries", "freeze",
   "fromEntries", "getOwnPropertyDescriptor", "getOwnPropertyDescriptors",
   "getOwnPropertyNames", "getOwnPropertySymbols", "getPrototypeOf", "hasOwn",
   "is", "isExtensible", "isFrozen", "isSealed", "keys", "preventExtensions",
   "seal", "setPrototypeOf", "values"}

IsFunction(o) ==
  \/ o \in {"Object", "Function", "Function.prototype"}
  \/ \E m \in ObjectPrototypeMethods : o = "Object.prototype." \o m
  \/ \E m \in FunctionPrototypeMethods : o = "Function.prototype." \o m
  \/ \E m \in ObjectStatics : o = "Object." \o m

(* [[Prototype]] of an object; "null" ends the chain. *)
Proto(o) ==
  CASE o = "Object.prototype" -> "null"
    [] o = "Function.prototype" -> "Object.prototype"
    [] IsFunction(o) -> "Function.prototype"
    [] OTHER -> "Object.prototype"

(* The names of the own properties of an object. *)
OwnKeys(o) ==
  CASE o = "translations" -> DOMAIN translations
    [] \E l \in DOMAIN translations : o = TableId(l) ->
         DOMAIN translations[CHOOSE l \in DOMAIN translations : o = TableId(l)]
    [] o = "Object.prototype" -> ObjectPrototypeMethods \cup {"constructor", "__proto__"}
    [] o = "Function.prototype" ->
         FunctionPrototypeMethods \cup {"constructor", "name", "length"}
    [] o = "Object" -> ObjectStatics \cup {"prototype", "name", "length"}
    [] o = "Function" -> {"prototype", "name", "length"}
    [] IsFunction(o) -> {"name", "length"}
    [] OTHER -> {}

(* The value of own property k of object o, read on behalf of receiver.  *)
(* A built-in function is named by its path; the length of a function is *)
(* a number, not told apart further.                                     *)
OwnValue(receiver, o, k) ==
  CASE o = "translations" -> Ref(TableId(k))
    [] \E l \in DOMAIN translations : o = TableId(l) ->
         Str(translations[CHOOSE l \in DOMAIN translations : o = TableId(l)][k])
    [] o = "Object.prototype" /\ k = "__proto__" ->
         IF Proto(receiver) = "null" THEN Null ELSE Ref(Proto(receiver))
    [] o = "Object.prototype" /\ k = "constructor" -> Ref("Object")
    [] o = "Function.prototype" /\ k = "constructor" -> Ref("Function")
    [] k = "prototype" -> Ref(o \o ".prototype")
    [] k = "name" -> Str(IF o = "Function.prototype" THEN "" ELSE o)
    [] k = "length" -> Num(IF o = "Function.prototype" THEN "0" ELSE "1")
    [] OTHER -> Ref(o \o "." \o k)

(* The `in` operator: k is an own or an inherited property of o. *)
RECURSIVE HasProperty(_, _)
HasProperty(o, k) ==
  IF o = "null" THEN FALSE
  ELSE k \in OwnKeys(o) \/ HasProperty(Proto(o), k)

RECURSIVE GetFrom(_, _, _)
GetFrom(receiver, o, k) ==
  IF o = "null" THEN Undefined
  ELSE IF k \in OwnKeys(o) THEN OwnValue(receiver, o, k)
  ELSE GetFrom(receiver, Proto(o), k)

(* v[k]: a property read.  Reading a property of undefined or null raises *)
(* a TypeError; a property of an object is looked up along its prototype  *)
(* chain and is undefined when no object of the chain has it.              *)
Get(v, k) ==
  CASE v.kind \in {"undefined", "null", "throw"} -> TypeError
    [] v.kind = "object" -> GetFrom(v.val, v.val, k)
    [] OTHER -> Undefined

(* a || b, with b evaluated only when a is falsy; a raise propagates. *)
OrElse(a, b) ==
  IF a.kind = "throw" THEN a
  ELSE IF Truthy(a) THEN a
  ELSE b

(***************************************************************************)
(* The functions of translations.ts.                                       *)
(***************************************************************************)

(* s.split(sep) for a one-character separator: the pieces between the     *)
(* separators, empty pieces kept ("/de/".split("/") is <<"", "de", "">>). *)
RECURSIVE SplitFrom(_, _, _, _)
SplitFrom(s, sep, start, i) ==
  IF i > Len(s) THEN <<SubSeq(s, start, Len(s))>>
  ELSE IF SubSeq(s, i, i) = sep
       THEN <<SubSeq(s, start, i - 1)>> \o SplitFrom(s, sep, i + 1, i + 1)
       ELSE SplitFrom(s, sep, start, i + 1)

Split(s, sep) == SplitFrom(s, sep, 1, 1)

(* ToPropertyKey of a value used with `in` or as an index. *)
ToKey(v) == IF v.kind = "undefined" THEN "undefined" ELSE v.val

(* getLangFromUrl(url): const [, lang] = url.pathname.split('/');          *)
(* if (lang in translations) return lang; return defaultLang;              *)
getLangFromUrl(pathname) ==
  LET parts == Split(pathname, "/")
      lang == IF Len(parts) >= 2 THEN Str(parts[2]) ELSE Undefined
  IN IF HasProperty("translations", ToKey(lang)) THEN lang ELSE Str(defaultLang)

(* t with the operands of || exchanged: the default locale is read first. *)
t_EnglishFirst(lang, key) ==
  OrElse(Get(Get(Ref("translations"), defaultLang), key),
         Get(Get(Ref("translations"), lang), key))

(* t without the || fallback. *)
t_NoFallback(lang, key) == Get(Get(Ref("translations"), lang), key)

(* t with the two indices exchanged: translations[key][lang]. *)
t_SwappedIndex(lang, key) ==
  OrElse(Get(Get(Ref("translations"), key), lang),
         Get(Get(Ref("translations"), key), defaultLang))

(* t with ?? for ||: the fallback is taken on undefined and null only. *)
t_Nullish(lang, key) ==
  LET own == Get(Get(Ref("translations"), lang), key)
  IN IF own.kind \in {"undefined", "null"}
     THEN Get(Get(Ref("translations"), defaultLang), key)
     ELSE own

(* The closure t of useTranslations(lang):                                 *)
(* return translations[lang][key] || translations[defaultLang][key];       *)
t(lang, key) ==
  OrElse(Get(Get(Ref("translations"), lang), key),
         Get(Get(Ref("translations"), defaultLang), key))

(* getLocalizedPath without the test for the default locale. *)
getLocalizedPath_AlwaysPrefixed(path, lang) == "/" \o lang \o path

(* getLocalizedPath returning the path for every locale. *)
getLocalizedPath_NeverPrefixed(path, lang) == path

(* getLocalizedPath leaving alone a path that has the prefix already. *)
getLocalizedPath_KeepsPrefix(path, lang) ==
  IF lang = defaultLang THEN path
  ELSE IF Len(path) > Len(lang) /\ SubSeq(path, 1, Len(lang) + 1) = "/" \o lang
       THEN path
       ELSE "/" \o lang \o path

(* getLocalizedPath(path, lang):                                           *)
(* if (lang === defaultLang) return path; return `/${lang}${path}`;        *)
getLocalizedPath(path, lang) ==
  IF lang = defaultLang THEN path ELSE "/" \o lang \o path

(***************************************************************************)
(* The routing configuration of the site: the i18n section of the object   *)
(* given to defineConfig.                                                  *)
(*   i18n: { defaultLocale: 'en', locales: ['en', 'de'],                   *)
(*           routing: { prefixDefaultLocale: false } }                     *)
(***************************************************************************)
i18n ==
  [defaultLocale |-> "en",
   locales |-> <<"en", "de">>,
   routing |-> [prefixDefaultLocale |-> FALSE]]

(***************************************************************************)
(* Front matter.  A document opens with a block of YAML between two ---    *)
(* lines; the block is a mapping, one "key: value" per line.  A value is   *)
(* a quoted or a plain scalar, a flow sequence [a, b, ...], nothing (null) *)
(* or, when indented lines follow the key, a nested mapping.               *)
(***************************************************************************)
CharAt(s, i) == SubSeq(s, i, i)

RECURSIVE TrimLeft(_)
TrimLeft(s) == IF Len(s) > 0 /\ CharAt(s, 1) = " " THEN TrimLeft(Tail(s)) ELSE s

RECURSIVE TrimRight(_)
TrimRight(s) ==
  IF Len(s) > 0 /\ CharAt(s, Len(s)) = " " THEN TrimRight(SubSeq(s, 1, Len(s) - 1)) ELSE s

Trim(s) == TrimRight(TrimLeft(s))

(* The position of the first occurrence of character c in s, 0 when none. *)
RECURSIVE IndexFrom(_, _, _)
IndexFrom(s, c, i) ==
  IF i > Len(s) THEN 0
  ELSE IF CharAt(s, i) = c THEN i
  ELSE IndexFrom(s, c, i + 1)

IndexOf(s, c) == IndexFrom(s, c, 1)

Digits == {"0", "1", "2", "3", "4", "5", "6", "7", "8", "9"}

(* A plain scalar that begins YYYY-MM-DD resolves to a timestamp. *)
IsTimestamp(s) ==
  /\ Len(s) >= 10
  /\ \A i \in {1, 2, 3, 4, 6, 7, 9, 10} : CharAt(s, i) \in Digits
  /\ CharAt(s, 5) = "-"
  /\ CharAt(s, 8) = "-"

Unquote(s) ==
  IF Len(s) >= 2 /\ CharAt(s, 1) \in {"\"", "'"} /\ CharAt(s, Len(s)) = CharAt(s, 1)
  THEN SubSeq(s, 2, Len(s) - 1)
  ELSE s

(* The value of a scalar or flow-sequence text. *)
YamlValue(text) ==
  CASE text = "" -> [kind |-> "null", val |-> "", items |-> <<>>]
    [] CharAt(text, 1) = "[" /\ CharAt(text, Len(text)) = "]" ->
         LET inner == Trim(SubSeq(text, 2, Len(text) - 1))
             parts == IF inner = "" THEN <<>> ELSE Split(inner, ",")
         IN [kind |-> "list", val |-> "",
             items |-> [i \in 1..Len(parts) |-> Unquote(Trim(parts[i]))]]
    [] CharAt(text, 1) \in {"\"", "'"} ->
         [kind |-> "string", val |-> Unquote(text), items |-> <<>>]
    [] IsTimestamp(text) -> [kind |-> "timestamp", val |-> text, items |-> <<>>]
    [] text \in {"true", "false"} -> [kind |-> "boolean", val |-> text, items |-> <<>>]
    [] OTHER -> [kind |-> "string", val |-> text, items |-> <<>>]

IsBlankOrComment(line) == Trim(line) = "" \/ CharAt(Trim(line), 1) = "#"

IsIndented(line) == Len(line) > 0 /\ CharAt(line, 1) = " "

(* The top-level "key: value" lines of a block, as <<key, value>> pairs; a *)
(* key followed by indented lines holds a nested mapping.                  *)
RECURSIVE FrontMatterEntries(_, _)
FrontMatterEntries(lines, i) ==
  IF i > Len(lines) THEN <<>>
  ELSE IF IsBlankOrComment(lines[i]) \/ IsIndented(lines[i]) \/ IndexOf(lines[i], ":") = 0
       THEN FrontMatterEntries(lines, i + 1)
  ELSE LET colon == IndexOf(lines[i], ":")
           key == Trim(SubSeq(lines[i], 1, colon - 1))
           text == Trim(SubSeq(lines[i], colon + 1, Len(lines[i])))
           nested == \E j \in (i+1)..Len(lines) :
                       /\ IsIndented(lines[j]) /\ ~IsBlankOrComment(lines[j])
                       /\ \A m \in (i+1)..(j-1) : IsBlankOrComment(lines[m])
           value == IF text = "" /\ nested
                    THEN [kind |-> "map", val |-> "", items |-> <<>>]
                    ELSE YamlValue(text)
       IN <<<<key, value>>>> \o FrontMatterEntries(lines, i + 1)

parseFrontMatter(lines) == ObjectLiteral(FrontMatterEntries(lines, 1))

(* The last path segment of a file name, without its extension. *)
RECURSIVE LastIndexFrom(_, _, _)
LastIndexFrom(s, c, i) ==
  IF i = 0 THEN 0
  ELSE IF CharAt(s, i) = c THEN i
  ELSE LastIndexFrom(s, c, i - 1)

LastIndexOf(s, c) == LastIndexFrom(s, c, Len(s))

BaseName(file) == SubSeq(file, LastIndexOf(file, "/") + 1, Len(file))

(* The slug of a post: its file name without directory and extension. *)
slug(file) ==
  LET base == BaseName(file)
      dot == LastIndexOf(base, ".")
  IN IF dot > 1 THEN SubSeq(base, 1, dot - 1) ELSE base

(* The collection entry of a document: its slug, its data and its body. *)
getEntry(doc) ==
  [kind |-> "entry", val |-> slug(doc.file), file |-> doc.file, line |-> doc.line,
   data |-> parseFrontMatter(doc.frontMatter), bodyLines |-> doc.bodyLines]
(* src/content/blog/gitlab-cicd-java-react.md, lines 1-6; its body runs to line 326. *)
doc_gitlab_cicd_java_react_1 ==
  [file |-> "src/content/blog/gitlab-cicd-java-react.md", line |-> 1, bodyLines |-> 263,
   frontMatter |->
     << "title: \"Building a Robust CI/CD Pipeline with GitLab for Java and React\"",
        "description: \"How we built continuous integration and deployment workflows for a full-stack application using GitLab CI/CD.\"",
        "date: 2024-07-10",
        "tags: [\"devops\", \"gitlab\", \"cicd\", \"java\", \"react\"]" >>]

(* src/content/blog/gitops-pulumi-helm.md, lines 1-6; its body runs to line 201. *)
doc_gitops_pulumi_helm_1 ==
  [file |-> "src/content/blog/gitops-pulumi-helm.md", line |-> 1, bodyLines |-> 148,
   frontMatter |->
     << "title: \"GitOps with Pulumi and Helm: Our Setup\"",
        "description: \"How we implemented GitOps for infrastructure and application deployment using Pulumi and Helm.\"",
        "date: 2023-11-15",
        "tags: [\"gitops\", \"pulumi\", \"helm\", \"kubernetes\", \"devops\"]" >>]

(* src/content/blog/kubernetes-multi-tenant-saas.md, lines 1-6; its body runs to line 116. *)
doc_kubernetes_multi_tenant_saas_1 ==
  [file |-> "src/content/blog/kubernetes-multi-tenant-saas.md", line |-> 1, bodyLines |-> 78,
   frontMatter |->
     << "title: \"What I Learned Building Multi-Tenant SaaS on Kubernetes\"",
        "description: \"Hard-won lessons from migrating a VM-per-customer architecture to shared Kubernetes clusters with namespace isolation.\"",
        "date: 2024-02-28",
        "tags: [\"kubernetes\", \"saas\", \"multi-tenancy\", \"architecture\"]" >>]

(* src/content/blog/observability-distributed-systems.md, lines 1-6; its body runs to line 169. *)
doc_observability_distributed_systems_1 ==
  [file |-> "src/content/blog/observability-distributed-systems.md", line |-> 1, bodyLines |-> 117,
   frontMatter |->
     << "title: \"Building Observability into Distributed Systems\"",
        "description: \"Practical approaches to logging, metrics, and tracing that helped us understand our microservices.\"",
        "date: 2022-11-20",
        "tags: [\"observability\", \"monitoring\", \"microservices\", \"distributed-systems\"]" >>]

(* src/content/blog/observability-distributed-systems.md, lines 170-175; its body runs to line 393. *)
doc_observability_distributed_systems_170 ==
  [file |-> "src/content/blog/observability-distributed-systems.md", line |-> 170, bodyLines |-> 159,
   frontMatter |->
     << "title: \"Java 21 Features We're Actually Using in Production\"",
        "description: \"A look at the Java 21 features that have made a real difference in our enterprise applications.\"",
        "date: 2025-01-10",
        "tags: [\"java\", \"enterprise\", \"backend\"]" >>]

(* src/content/blog/postgresql-performance-tuning.md, lines 1-6; its body runs to line 304. *)
doc_postgresql_performance_tuning_1 ==
  [file |-> "src/content/blog/postgresql-performance-tuning.md", line |-> 1, bodyLines |-> 229,
   frontMatter |->
     << "title: \"PostgreSQL Performance Tuning: A Practical Guide\"",
        "description: \"Real-world PostgreSQL optimization techniques that made a significant difference in our enterprise applications.\"",
        "date: 2024-08-15",
        "tags: [\"postgresql\", \"database\", \"performance\", \"optimization\"]" >>]

(* src/content/blog/quarkus-migration-javaee.md, lines 1-6; its body runs to line 94. *)
doc_quarkus_migration_javaee_1 ==
  [file |-> "src/content/blog/quarkus-migration-javaee.md", line |-> 1, bodyLines |-> 56,
   frontMatter |->
     << "title: \"Why We Moved from Java EE to Quarkus (And What Broke)\"",
        "description: \"Our journey migrating a monolithic Java EE application to Quarkus microservices, including the parts that didn't go smoothly.\"",
        "date: 2023-08-22",
        "tags: [\"quarkus\", \"java\", \"microservices\", \"migration\"]" >>]

(* src/content/blog/quarkus-migration-javaee.md, lines 95-100; its body runs to line 472. *)
doc_quarkus_migration_javaee_95 ==
  [file |-> "src/content/blog/quarkus-migration-javaee.md", line |-> 95, bodyLines |-> 295,
   frontMatter |->
     << "title: \"Building a Robust CI/CD Pipeline with GitLab for Java Applications\"",
        "description: \"How we built continuous integration and deployment workflows for enterprise Java applications using GitLab CI/CD.\"",
        "date: 2024-07-10",
        "tags: [\"devops\", \"gitlab\", \"cicd\", \"java\", \"enterprise\"]" >>]

(* src/content/blog/quarkus-migration-javaee.md, lines 473-478; its body runs to line 862. *)
doc_quarkus_migration_javaee_473 ==
  [file |-> "src/content/blog/quarkus-migration-javaee.md", line |-> 473, bodyLines |-> 302,
   frontMatter |->
     << "title: \"Building Production-Ready REST APIs with JAX-RS\"",
        "description: \"Best practices and patterns for building robust, maintainable REST APIs using JAX-RS in enterprise Java applications.\"",
        "date: 2024-10-05",
        "tags: [\"java\", \"jax-rs\", \"rest-api\", \"enterprise\"]" >>]

(* src/content/blog/react-patterns-enterprise.md, lines 1-6; its body runs to line 360. *)
doc_react_patterns_enterprise_1 ==
  [file |-> "src/content/blog/react-patterns-enterprise.md", line |-> 1, bodyLines |-> 286,
   frontMatter |->
     << "title: \"React Patterns That Scale: Lessons from Enterprise Development\"",
        "description: \"Practical React patterns and architecture decisions for building maintainable enterprise applications.\"",
        "date: 2024-12-01",
        "tags: [\"react\", \"javascript\", \"frontend\", \"architecture\"]" >>]

(* src/content/blog/react-patterns-enterprise.md, lines 361-366; its body runs to line 730. *)
doc_react_patterns_enterprise_361 ==
  [file |-> "src/content/blog/react-patterns-enterprise.md", line |-> 361, bodyLines |-> 287,
   frontMatter |->
     << "title: \"Migrating from Java EE to Jakarta EE: What You Need to Know\"",
        "description: \"A practical guide to migrating enterprise applications from Java EE 8 to Jakarta EE 10, including namespace changes and common pitfalls.\"",
        "date: 2024-05-10",
        "tags: [\"java\", \"jakarta-ee\", \"enterprise\", \"migration\"]" >>]

(* src/content/blog/react-patterns-enterprise.md, lines 731-736; its body runs to line 831. *)
doc_react_patterns_enterprise_731 ==
  [file |-> "src/content/blog/react-patterns-enterprise.md", line |-> 731, bodyLines |-> 57,
   frontMatter |->
     << "title: \"Applying Team Topologies: What Actually Changed for Us\"",
        "description: \"How we restructured our engineering organization using Team Topologies principles and what we learned.\"",
        "date: 2024-09-15",
        "tags: [\"team-topologies\", \"engineering\", \"organization\", \"leadership\"]" >>]

(* src/content/blog/reverse-string-java.md, lines 1-7; its body runs to line 65. *)
doc_reverse_string_java_1 ==
  [file |-> "src/content/blog/reverse-string-java.md", line |-> 1, bodyLines |-> 42,
   frontMatter |->
     << "title: \"How to Reverse a String in Java\"",
        "description: \"Learn multiple ways to reverse a string in Java, from traditional for loops to using StringBuilder.\"",
        "date: 2020-05-06",
        "tags: [\"java\", \"beginner\", \"tutorial\"]",
        "image: \"/images/java.jpg\"" >>]

(* src/content/blog/reverse-string-java.md, lines 66-71; its body runs to line 186. *)
doc_reverse_string_java_66 ==
  [file |-> "src/content/blog/reverse-string-java.md", line |-> 66, bodyLines |-> 72,
   frontMatter |->
     << "title: \"How I Debug Production Issues in Java Applications\"",
        "description: \"The tools and techniques I actually use when something breaks at 2 AM.\"",
        "date: 2020-09-12",
        "tags: [\"java\", \"debugging\", \"production\", \"monitoring\"]" >>]

(* _posts/2020-05-14-resizable-arrays-arraylist.md, lines 1-4; its body runs to line 40. *)
doc_2020_05_14_resizable_arrays_arraylist_1 ==
  [file |-> "_posts/2020-05-14-resizable-arrays-arraylist.md", line |-> 1, bodyLines |-> 24,
   frontMatter |->
     << "tags: basics beginner",
        "title: What are resizable arrays and an ArrayList?" >>]

(* _posts/2020-05-14-resizable-arrays-arraylist.md, lines 41-56; its body runs to line 61. *)
doc_2020_05_14_resizable_arrays_arraylist_41 ==
  [file |-> "_posts/2020-05-14-resizable-arrays-arraylist.md", line |-> 41, bodyLines |-> 4,
   frontMatter |->
     << "layout: article",
        "titles:",
        "  # @start locale config",
        "  en      : &EN       Personal Projects",
        "  en-GB   : *EN",
        "  en-US   : *EN",
        "  en-CA   : *EN",
        "  en-AU   : *EN",
        "  # @end locale config",
        "",
        "key: page-personal",
        "show_excerpt: true",
        "show_readmore: true",
        "show_info: true" >>]

(* unnamed/part_000, lines 1-16; its body runs to line 108. *)
doc_part_000_1 ==
  [file |-> "unnamed/part_000", line |-> 1, bodyLines |-> 60,
   frontMatter |->
     << "layout: article",
        "titles:",
        "  # @start locale config",
        "  en      : &EN       About Me",
        "  en-GB   : *EN",
        "  en-US   : *EN",
        "  en-CA   : *EN",
        "  en-AU   : *EN",
        "  # @end locale config",
        "",
        "key: page-about",
        "show_excerpt: true",
        "show_readmore: true",
        "show_info: true" >>]

(* unnamed/part_002, lines 1-6; its body runs to line 228. *)
doc_part_002_1 ==
  [file |-> "unnamed/part_002", line |-> 1, bodyLines |-> 165,
   frontMatter |->
     << "title: \"Migrating from Oracle to PostgreSQL: A Practical Guide\"",
        "description: \"Lessons learned from coordinating a large-scale database migration from Oracle to PostgreSQL in an enterprise environment.\"",
        "date: 2024-09-20",
        "tags: [\"postgresql\", \"oracle\", \"database\", \"migration\"]" >>]

(* unnamed/part_003, lines 1-6; its body runs to line 357. *)
doc_part_003_1 ==
  [file |-> "unnamed/part_003", line |-> 1, bodyLines |-> 265,
   frontMatter |->
     << "title: \"Docker for Java Developers: From Development to Production\"",
        "description: \"Practical guide to containerizing Java applications with optimized Dockerfiles and production-ready configurations.\"",
        "date: 2022-03-25",
        "tags: [\"docker\", \"java\", \"devops\", \"containers\"]" >>]

(* unnamed/part_004, lines 1-6; its body runs to line 157. *)
doc_part_004_1 ==
  [file |-> "unnamed/part_004", line |-> 1, bodyLines |-> 110,
   frontMatter |->
     << "title: \"Implementing OAuth 2.0 and OpenID Connect in Enterprise Java Applications\"",
        "description: \"A practical guide to securing enterprise applications with OAuth 2.0 and OIDC, based on real-world implementation experience.\"",
        "date: 2024-11-15",
        "tags: [\"java\", \"security\", \"oauth\", \"enterprise\"]" >>]

(* unnamed/part_005, lines 1-6; its body runs to line 64. *)
doc_part_005_1 ==
  [file |-> "unnamed/part_005", line |-> 1, bodyLines |-> 38,
   frontMatter |->
     << "title: \"What are Resizable Arrays and ArrayList?\"",
        "description: \"Understanding dynamic arrays in Java and how ArrayList provides automatic resizing capabilities.\"",
        "date: 2020-05-14",
        "tags: [\"java\", \"basics\", \"beginner\"]" >>]

(* unnamed/part_005, lines 65-70; its body runs to line 225. *)
doc_part_005_65 ==
  [file |-> "unnamed/part_005", line |-> 65, bodyLines |-> 108,
   frontMatter |->
     << "title: \"Database Connection Pooling Mistakes I've Made\"",
        "description: \"Common connection pooling pitfalls and how to configure pools properly for production workloads.\"",
        "date: 2020-05-18",
        "tags: [\"database\", \"postgresql\", \"java\", \"performance\"]" >>]

(* unnamed/part_005, lines 226-231; its body runs to line 519. *)
doc_part_005_226 ==
  [file |-> "unnamed/part_005", line |-> 226, bodyLines |-> 208,
   frontMatter |->
     << "title: \"Migrating from GlassFish to Payara Server\"",
        "description: \"Lessons learned from migrating enterprise Java applications from GlassFish to Payara Server in production.\"",
        "date: 2021-02-20",
        "tags: [\"java\", \"payara\", \"glassfish\", \"enterprise\"]" >>]

(* unnamed/part_006, lines 1-6; its body runs to line 320. *)
doc_part_006_1 ==
  [file |-> "unnamed/part_006", line |-> 1, bodyLines |-> 247,
   frontMatter |->
     << "title: \"Java Logging Best Practices for Production Systems\"",
        "description: \"Effective logging strategies that help you debug issues faster and monitor application health in production.\"",
        "date: 2021-06-15",
        "tags: [\"java\", \"logging\", \"monitoring\", \"best-practices\"]" >>]

(* unnamed/part_007, lines 43-48; its body runs to line 108. *)
doc_part_007_43 ==
  [file |-> "unnamed/part_007", line |-> 43, bodyLines |-> 44,
   frontMatter |->
     << "date: 2020-05-06 22:34",
        "tags: java beginner",
        "title: How to reverse a String in Java",
        "type: item" >>]

(* Every document of the repository that opens with a front-matter block. *)
Documents ==
  << doc_gitlab_cicd_java_react_1,
     doc_gitops_pulumi_helm_1,
     doc_kubernetes_multi_tenant_saas_1,
     doc_observability_distributed_systems_1,
     doc_observability_distributed_systems_170,
     doc_postgresql_performance_tuning_1,
     doc_quarkus_migration_javaee_1,
     doc_quarkus_migration_javaee_95,
     doc_quarkus_migration_javaee_473,
     doc_react_patterns_enterprise_1,
     doc_react_patterns_enterprise_361,
     doc_react_patterns_enterprise_731,
     doc_reverse_string_java_1,
     doc_reverse_string_java_66,
     doc_2020_05_14_resizable_arrays_arraylist_1,
     doc_2020_05_14_resizable_arrays_arraylist_41,
     doc_part_000_1,
     doc_part_002_1,
     doc_part_003_1,
     doc_part_004_1,
     doc_part_005_1,
     doc_part_005_65,
     doc_part_005_226,
     doc_part_006_1,
     doc_part_007_43 >>

(***************************************************************************)
(* The inputs the calls are made with.                                     *)
(***************************************************************************)
TableKeys == {e[1] : e \in Range(en_entries) \cup Range(de_entries) \cup Range(hi_entries)}

(* Keys: every key of a table, and strings that are keys of no table. *)
KeyInputs == TableKeys \cup {"missing.key", "constructor", "__proto__"}

(* Locale arguments: the codes of the tables, codes without a table, and *)
(* names every object inherits.                                          *)
LangInputs == {"en", "de", "hi", "fr", "EN", "constructor", "__proto__", "toString"}

(* Locale arguments of getLocalizedPath. *)
PathLangInputs == {"en", "de", "hi", "fr"}

(* Path segments, and the paths built of at most MaxSegments of them. *)
MaxSegments == 2

Segments == {"", "de", "DE", "blog"}

RECURSIVE PathsOf(_)
PathsOf(n) ==
  IF n = 0 THEN {""}
  ELSE LET shorter == PathsOf(n - 1)
       IN shorter \cup {p \o "/" \o s : p \in shorter, s \in Segments}

PathInputs ==
  PathsOf(MaxSegments)
    \cup {"about", "de/blog", "/en/blog", "/hi/blog", "/constructor", "/toString", "/__proto__/blog"}

Init ==
  /\ languages = ObjectLiteral(languages_entries)
  /\ defaultLang = "en"
  /\ translations = ObjectLiteral(translations_entries)
  /\ call = [fn |-> "load", a1 |-> "", a2 |-> ""]
  /\ ret = Undefined

(* useTranslations(lang) returns the closure t over lang. *)
UseTranslations(lang) ==
  /\ call' = [fn |-> "useTranslations", a1 |-> lang, a2 |-> ""]
  /\ ret' = [kind |-> "function", val |-> "t"]
  /\ UNCHANGED <<languages, defaultLang, translations>>

(* T storing the key as its own English text when no table has it. *)
T_StoresMissingKey(key) ==
  /\ call.fn \in {"useTranslations", "t"}
  /\ call' = [fn |-> "t", a1 |-> call.a1, a2 |-> key]
  /\ ret' = t(call.a1, key)
  /\ translations' =
       IF key \in DOMAIN translations[defaultLang] THEN translations
       ELSE LET en == translations[defaultLang]
            IN [translations EXCEPT
                  ![defaultLang] = [k \in DOMAIN en \cup {key} |->
                                      IF k = key THEN key ELSE en[k]]]
  /\ UNCHANGED <<languages, defaultLang>>

(* t(key), on the closure in hand: the one useTranslations just returned, *)
(* or the one just called.                                               *)
T(key) ==
  /\ call.fn \in {"useTranslations", "t"}
  /\ call' = [fn |-> "t", a1 |-> call.a1, a2 |-> key]
  /\ ret' = t(call.a1, key)
  /\ UNCHANGED <<languages, defaultLang, translations>>

GetLangFromUrl(pathname) ==
  /\ call' = [fn |-> "getLangFromUrl", a1 |-> pathname, a2 |-> ""]
  /\ ret' = getLangFromUrl(pathname)
  /\ UNCHANGED <<languages, defaultLang, translations>>

GetLocalizedPath(path, lang) ==
  /\ call' = [fn |-> "getLocalizedPath", a1 |-> path, a2 |-> lang]
  /\ ret' = Str(getLocalizedPath(path, lang))
  /\ UNCHANGED <<languages, defaultLang, translations>>

(***************************************************************************)
(* The sitemap: the serialize hook given to the sitemap integration.  A    *)
(* sitemap item is a record of its url, changefreq and priority; a number  *)
(* is written as its decimal text.                                         *)
(***************************************************************************)

(* s.includes(sub): sub occurs in s from position i on. *)
RECURSIVE IncludesFrom(_, _, _)
IncludesFrom(s, sub, i) ==
  IF i + Len(sub) - 1 > Len(s) THEN FALSE
  ELSE IF SubSeq(s, i, i + Len(sub) - 1) = sub THEN TRUE
  ELSE IncludesFrom(s, sub, i + 1)

Includes(s, sub) == IncludesFrom(s, sub, 1)

(* serialize testing for '/blog/' right after the site's origin only. *)
serialize_BlogAtRootOnly(item) ==
  [item EXCEPT
     !.changefreq = Str("weekly"),
     !.priority = IF Len(item.url) >= 23 /\ SubSeq(item.url, 1, 23) = "https://varij.dev/blog/"
                  THEN Num("0.8") ELSE Num("0.7")]

(* serialize(item): item.changefreq = 'weekly';                            *)
(* item.priority = item.url.includes('/blog/') ? 0.8 : 0.7; return item;   *)
serialize(item) ==
  [item EXCEPT
     !.changefreq = Str("weekly"),
     !.priority = IF Includes(item.url, "/blog/") THEN Num("0.8") ELSE Num("0.7")]

(* The pages of the site, under site: 'https://varij.dev'. *)
SitemapUrls ==
  {"https://varij.dev/",
   "https://varij.dev/about/",
   "https://varij.dev/blog/",
   "https://varij.dev/blog",
   "https://varij.dev/blog/reverse-string-java/",
   "https://varij.dev/weblog/",
   "https://varij.dev/de/",
   "https://varij.dev/de/blog/",
   "https://varij.dev/de/blog/reverse-string-java/",
   "https://varij.dev/hi/projects/"}

(* The items handed to serialize: changefreq and priority not set, or set. *)
SitemapItems ==
  [url : SitemapUrls,
   changefreq : {Undefined, Str("daily")},
   priority : {Undefined, Num("0.5")}]

(* The sitemap integration calls serialize on an item and keeps what it *)
(* returns.                                                             *)
Serialize(item) ==
  /\ call' = [fn |-> "serialize", a1 |-> item.url, a2 |-> ""]
  /\ ret' = LET out == serialize(item)
            IN [kind |-> "item", val |-> out.url,
                changefreq |-> out.changefreq, priority |-> out.priority]
  /\ UNCHANGED <<languages, defaultLang, translations>>

(* The content collection hands out the entry of a document. *)
GetEntry(i) ==
  /\ call' = [fn |-> "getEntry", a1 |-> Documents[i].file, a2 |-> ""]
  /\ ret' = getEntry(Documents[i])
  /\ UNCHANGED <<languages, defaultLang, translations>>

(* useTranslations(getLangFromUrl(url)): the closure is made for the lang *)
(* that getLangFromUrl just returned.                                    *)
UseTranslationsOfUrl ==
  /\ call.fn = "getLangFromUrl"
  /\ UseTranslations(ToKey(ret))

Next ==
  \/ \E lang \in LangInputs : UseTranslations(lang)
  \/ UseTranslationsOfUrl
  \/ \E key \in KeyInputs : T(key)
  \/ \E pathname \in PathInputs : GetLangFromUrl(pathname)
  \/ \E path \in PathInputs, lang \in PathLangInputs : GetLocalizedPath(path, lang)
  \/ \E i \in 1..Len(Documents) : GetEntry(i)
  \/ \E item \in SitemapItems : Serialize(item)

Spec == Init /\ [][Next]_vars

(***************************************************************************)
(* The lookup over tables that are not complete.  The shipped tables hold  *)
(* every key in every locale, so the fallback of t is never taken on them; *)
(* t itself reads whatever the tables hold.  SpecPartial starts from the   *)
(* shipped tables with one entry of a non-default locale edited, absent or *)
(* set to the empty string, and makes the lookup calls only.               *)
(***************************************************************************)
EditedLocales == {"de", "hi"}

EditedKeys == {"nav.home", "hero.title"}

EditKinds == {"absent", "empty"}

EditTable(table, key, kind) ==
  IF kind = "absent"
  THEN [k \in DOMAIN table \ {key} |-> table[k]]
  ELSE [k \in DOMAIN table |-> IF k = key THEN "" ELSE table[k]]

PartialTables ==
  {[l \in DOMAIN ObjectLiteral(translations_entries) |->
      IF l = e[1]
      THEN EditTable(ObjectLiteral(translations_entries)[l], e[2], e[3])
      ELSE ObjectLiteral(translations_entries)[l]] :
   e \in EditedLocales \X EditedKeys \X EditKinds}

InitPartial ==
  /\ languages = ObjectLiteral(languages_entries)
  /\ defaultLang = "en"
  /\ translations \in PartialTables
  /\ call = [fn |-> "load", a1 |-> "", a2 |-> ""]
  /\ ret = Undefined

NextLookup ==
  \/ \E lang \in LangInputs : UseTranslations(lang)
  \/ \E key \in KeyInputs : T(key)

SpecPartial == InitPartial /\ [][NextLookup]_vars

(***************************************************************************)
(* The properties.                                                         *)
(***************************************************************************)
SupportedLocales == {"en", "de", "hi"}

(* A call of t is in hand: lang is the locale of its closure, key its argument. *)
Looked(lang, key) == call.fn = "t" /\ call.a1 = lang /\ call.a2 = key

(* C1: for every supported locale L and every key K for which L's own table *)
(* holds a non-empty string, t(K) under L returns exactly L's string, also  *)
(* where the English string differs.                                        *)
C1_OwnTranslationReturned ==
  \A L \in SupportedLocales : \A K \in KeyInputs :
    (/\ Looked(L, K)
     /\ K \in DOMAIN translations[L]
     /\ translations[L][K] # "")
    => ret = Str(translations[L][K])

(* A German lookup whose own string differs from the English one. *)
C1_Witness ==
  /\ Looked("de", "nav.home")
  /\ translations["de"]["nav.home"] # translations["en"]["nav.home"]
  /\ ret = Str("Startseite")

(* C2: for every supported locale L and every key K absent from L's table *)
(* and present in the English table, t(K) under L returns the English     *)
(* string for K.                                                          *)
C2_EnglishFallback ==
  \A L \in SupportedLocales : \A K \in KeyInputs :
    (/\ Looked(L, K)
     /\ K \notin DOMAIN translations[L]
     /\ K \in DOMAIN translations["en"])
    => ret = Str(translations["en"][K])

(* A lookup of a key the German table lacks, answered in English. *)
C2_Witness ==
  /\ Looked("de", "nav.home")
  /\ "nav.home" \notin DOMAIN translations["de"]
  /\ ret = Str("Home")

(* C3: for every supported locale L and every key K absent from both L's *)
(* table and the English table, t(K) under L returns the key K itself.   *)
C3_RawKeyFallback ==
  \A L \in SupportedLocales : \A K \in KeyInputs :
    (/\ Looked(L, K)
     /\ K \notin DOMAIN translations[L]
     /\ K \notin DOMAIN translations["en"])
    => ret = Str(K)

(* C4: for every locale L of the translations table and every key K of the *)
(* English table, t(K) under L returns a non-empty string, which is L's    *)
(* own translation or the English one.                                     *)
C4_NonEmptyForDefaultKeys ==
  \A L \in DOMAIN translations : \A K \in DOMAIN translations["en"] :
    Looked(L, K)
    => /\ ret.kind = "string"
       /\ ret.val # ""
       /\ \/ K \in DOMAIN translations[L] /\ ret.val = translations[L][K]
          \/ ret.val = translations["en"][K]

(* A Hindi lookup of a key of the English table. *)
C4_Witness ==
  /\ Looked("hi", "footer.rights")
  /\ "footer.rights" \in DOMAIN translations["en"]
  /\ ret.kind = "string"
  /\ ret.val = translations["hi"]["footer.rights"]

(* C5: for every locale value passed to useTranslations, one without a *)
(* table included, and every key passed to t, the call returns a value *)
(* and raises no error.                                                *)
C5_LookupNeverRaises ==
  call.fn \in {"useTranslations", "t"} => ret.kind # "throw"

(* C6: the supported locales are exactly en, de and hi: translations has a *)
(* table for each of the three and for no other code, languages has the    *)
(* same three keys, and defaultLang, 'en', is one of them.                 *)
C6_SupportedLocales ==
  /\ DOMAIN translations = {"en", "de", "hi"}
  /\ DOMAIN languages = DOMAIN translations
  /\ defaultLang = "en"
  /\ defaultLang \in DOMAIN translations

(* The closure of the third locale has been made and called. *)
C6_Witness ==
  /\ call.fn = "t"
  /\ call.a1 = "hi"
  /\ call.a1 \in DOMAIN translations \cap DOMAIN languages
  /\ ret.kind = "string"

(* The front matter of a page of the site, not of a post: its key is page-... *)
IsPage(data) ==
  /\ "key" \in DOMAIN data
  /\ Len(data["key"].val) >= 5
  /\ SubSeq(data["key"].val, 1, 5) = "page-"

IsPostEntry == call.fn = "getEntry" /\ ~IsPage(ret.data)

NonNull(data, field) == field \in DOMAIN data /\ data[field].kind # "null"

(* C7: for every blog post, those under _posts included, parsing the front *)
(* matter yields a title that is not null and a date that is not null.     *)
C7_TitleAndDate ==
  IsPostEntry => NonNull(ret.data, "title") /\ NonNull(ret.data, "date")

(* C8: every post has a slug derived from its file name, and no two distinct *)
(* post documents (front-matter blocks with their bodies) have the same one. *)
C8_UniqueSlug ==
  IsPostEntry =>
    \A i \in 1..Len(Documents) :
      getEntry(Documents[i]).val = ret.val
      => Documents[i].file = ret.file /\ Documents[i].line = ret.line

(* C9: every blog post document carries the four front-matter fields title, *)
(* description, date and tags, tags being a list of strings, and a Markdown *)
(* body after them.                                                         *)
C9_FourFieldsAndBody ==
  IsPostEntry =>
    /\ \A f \in {"title", "description", "date", "tags"} : NonNull(ret.data, f)
    /\ ret.data["tags"].kind = "list"
    /\ ret.bodyLines > 0

(* C10: getLocalizedPath(path, lang) returns path unchanged when lang is   *)
(* 'en' and '/' + lang + path for every other lang; for a path that begins *)
(* with '/', the route of another locale has lang as its first segment,    *)
(* followed by the original path.                                          *)
C10_LocalizedPath ==
  call.fn = "getLocalizedPath" =>
    LET path == call.a1
        lang == call.a2
        out == ret.val
    IN /\ ret.kind = "string"
       /\ lang = "en" => out = path
       /\ lang # "en" =>
            /\ Len(out) = 1 + Len(lang) + Len(path)
            /\ CharAt(out, 1) = "/"
            /\ SubSeq(out, 2, 1 + Len(lang)) = lang
            /\ SubSeq(out, 2 + Len(lang), Len(out)) = path
            /\ (Len(path) > 0 /\ CharAt(path, 1) = "/") =>
                 /\ Split(out, "/")[2] = lang
                 /\ SubSeq(Split(out, "/"), 3, Len(Split(out, "/")))
                      = Tail(Split(path, "/"))

(* A German route of a path that begins with '/'. *)
C10_Witness ==
  /\ call.fn = "getLocalizedPath"
  /\ call.a1 = "/blog"
  /\ call.a2 = "de"
  /\ ret = Str("/de/blog")

(* The first segment of a pathname that begins with '/': the text between *)
(* its first '/' and its second, or its end.                              *)
FirstSegment(pathname) ==
  LET rest == SubSeq(pathname, 2, Len(pathname))
      next == IndexOf(rest, "/")
  IN IF next = 0 THEN rest ELSE SubSeq(rest, 1, next - 1)

BeginsWithSlash(s) == Len(s) > 0 /\ CharAt(s, 1) = "/"

(* C11: getLangFromUrl(url) returns the first segment of url.pathname when *)
(* that segment is a locale code of the translations table and 'en'        *)
(* otherwise: 'en' for '/', for a locale code in a later segment only, and *)
(* for a first segment that differs from a code in letter case.            *)
C11_FirstSegmentOrDefault ==
  (call.fn = "getLangFromUrl" /\ BeginsWithSlash(call.a1)) =>
    ret = IF FirstSegment(call.a1) \in DOMAIN translations
          THEN Str(FirstSegment(call.a1))
          ELSE Str("en")

(* C13: for every URL, the value getLangFromUrl returns is one of en, de,  *)
(* hi, also when the first path segment names a property every object     *)
(* inherits, such as 'constructor', 'toString' or '__proto__'.             *)
C13_ReturnsSupportedLocale ==
  call.fn = "getLangFromUrl" => ret.kind = "string" /\ ret.val \in {"en", "de", "hi"}

(* C12: no call of getLangFromUrl, useTranslations, t or getLocalizedPath *)
(* modifies translations, languages or defaultLang: every step leaves the *)
(* three unchanged, and a lookup of a locale and key returns the string   *)
(* the tables held for them initially.                                    *)
C12_TablesUnchanged ==
  /\ [][UNCHANGED <<translations, languages, defaultLang>>]_vars
  /\ [](\A L \in SupportedLocales : \A K \in TableKeys :
          Looked(L, K) => ret = Str(ObjectLiteral(translations_entries)[L][K]))

(* A lookup made after other calls, answered from tables that are as loaded. *)
C12_Witness ==
  /\ Looked("hi", "nav.blog")
  /\ translations = ObjectLiteral(translations_entries)
  /\ languages = ObjectLiteral(languages_entries)
  /\ defaultLang = "en"
  /\ ret = Str(ObjectLiteral(translations_entries)["hi"]["nav.blog"])

(* The lang is one that getLangFromUrl returns for a pathname. *)
ReturnedForSomeUrl(lang) == \E p \in PathInputs : getLangFromUrl(p) = Str(lang)

(* C14: for every URL and every key K of the English table, the call        *)
(* useTranslations(getLangFromUrl(url))(K) raises no error and returns a    *)
(* non-empty string, whatever the first path segment of the URL is.         *)
C14_LookupUnderUrlLocale ==
  \A K \in DOMAIN translations["en"] :
    (call.fn = "t" /\ call.a2 = K /\ ReturnedForSomeUrl(call.a1))
    => ret.kind = "string" /\ ret.val # ""

(* The lookup under the lang returned for '/constructor', which is no table. *)
C14_Witness ==
  /\ Looked("constructor", "nav.home")
  /\ getLangFromUrl("/constructor") = Str("constructor")
  /\ ret = Str("Home")

(* C15: for every supported locale L and every path p that begins with '/' *)
(* and whose first segment is not itself a locale code, getLangFromUrl of  *)
(* the pathname getLocalizedPath(p, L) returns L.                          *)
C15_RoundTrip ==
  (/\ call.fn = "getLocalizedPath"
   /\ call.a2 \in SupportedLocales
   /\ BeginsWithSlash(call.a1)
   /\ FirstSegment(call.a1) \notin DOMAIN translations)
  => getLangFromUrl(ret.val) = Str(call.a2)

(* C16: getLocalizedPath does not detect or strip a locale prefix: applied *)
(* twice it returns p for the default locale, and for every other locale L *)
(* and every path p it returns '/' + L + '/' + L + p, which is not what    *)
(* one application returns.                                                *)
C16_NoPrefixDetection ==
  call.fn = "getLocalizedPath" =>
    \A p \in PathInputs :
      call.a1 = getLocalizedPath(p, call.a2) =>
        /\ call.a2 = "en" => ret.val = p
        /\ call.a2 # "en" =>
             /\ ret.val = "/" \o call.a2 \o "/" \o call.a2 \o p
             /\ ret.val # call.a1

(* The German route of '/blog', localized once more. *)
C16_Witness ==
  /\ call.fn = "getLocalizedPath"
  /\ call.a1 = getLocalizedPath("/blog", "de")
  /\ call.a2 = "de"
  /\ ret = Str("/de/de/blog")

(* C17: a translation whose value in locale L is the empty string is taken *)
(* as missing: for such a key K with a non-empty English value, t(K) under *)
(* L returns the English string.                                           *)
C17_EmptyIsMissing ==
  \A L \in SupportedLocales : \A K \in KeyInputs :
    (/\ Looked(L, K)
     /\ K \in DOMAIN translations[L]
     /\ translations[L][K] = ""
     /\ K \in DOMAIN translations["en"]
     /\ translations["en"][K] # "")
    => ret = Str(translations["en"][K])

(* A lookup of a key whose Hindi value is empty, answered in English. *)
C17_Witness ==
  /\ Looked("hi", "hero.title")
  /\ "hero.title" \in DOMAIN translations["hi"]
  /\ translations["hi"]["hero.title"] = ""
  /\ ret = Str("Head of Backend Engineering & Operations")

(* C18: the de and hi tables define exactly the keys of the en table, and *)
(* every value of every table is a non-empty string, so that t answers    *)
(* every key of the en table from the locale's own table.                 *)
C18_KeySetsComplete ==
  /\ \A L \in {"de", "hi"} : DOMAIN translations[L] = DOMAIN translations["en"]
  /\ \A L \in DOMAIN translations : \A K \in DOMAIN translations[L] :
       translations[L][K] # ""
  /\ \A L \in SupportedLocales : \A K \in DOMAIN translations["en"] :
       Looked(L, K) => ret.kind = "string" /\ ret.val = translations[L][K]

(* A Hindi lookup answered from the Hindi table, not in English. *)
C18_Witness ==
  /\ Looked("hi", "projects.viewGithub")
  /\ ret.kind = "string"
  /\ ret.val = translations["hi"]["projects.viewGithub"]
  /\ ret.val # translations["en"]["projects.viewGithub"]

(* C19: the locales configured for routing in the i18n section of the site *)
(* configuration are the locale codes of the translations table: every     *)
(* locale with a table is a routing locale and every routing locale has a  *)
(* table.                                                                  *)
C19_RoutingLocalesAreTableLocales ==
  /\ \A L \in DOMAIN translations : L \in Range(i18n.locales)
  /\ \A L \in Range(i18n.locales) : L \in DOMAIN translations

(* out is path under the prefix of lang: '/', lang, path. *)
HasLocalePrefix(out, lang, path) ==
  /\ Len(out) = 1 + Len(lang) + Len(path)
  /\ SubSeq(out, 1, 1 + Len(lang)) = "/" \o lang
  /\ SubSeq(out, 2 + Len(lang), Len(out)) = path

(* C20: the configured defaultLocale is defaultLang, 'en'; prefixDefaultLocale *)
(* is false, and the path getLocalizedPath builds for the default locale has   *)
(* no prefix, while the path for every other configured locale has that        *)
(* locale's prefix.                                                            *)
C20_DefaultLocaleAgrees ==
  /\ i18n.defaultLocale = defaultLang
  /\ defaultLang = "en"
  /\ i18n.routing.prefixDefaultLocale = FALSE
  /\ (call.fn = "getLocalizedPath" /\ call.a2 \in Range(i18n.locales)) =>
       IF call.a2 = i18n.defaultLocale
       THEN /\ HasLocalePrefix(ret.val, call.a2, call.a1) <=> i18n.routing.prefixDefaultLocale
            /\ ret.val = call.a1
       ELSE HasLocalePrefix(ret.val, call.a2, call.a1)

(* The route of the site root under the other configured locale. *)
C20_Witness ==
  /\ call.fn = "getLocalizedPath"
  /\ call.a1 = "/"
  /\ call.a2 = "de"
  /\ call.a2 \in Range(i18n.locales) \ {i18n.defaultLocale}
  /\ ret = Str("/de/")

(* The url holds the six characters /blog/ at some position. *)
HoldsBlogSegment(url) ==
  \E i \in 1..Len(url) : i + 5 <= Len(url) /\ SubSeq(url, i, i + 5) = "/blog/"

(* C21: the serialize hook gives every sitemap entry changefreq 'weekly'   *)
(* and priority 0.8 when the entry's url contains '/blog/' and 0.7         *)
(* otherwise; it returns the entry and leaves its url unchanged, so a blog *)
(* url under a locale prefix, such as '/de/blog/...', gets 0.8 too.        *)
C21_SitemapSerialize ==
  call.fn = "serialize" =>
    /\ ret.kind = "item"
    /\ ret.val = call.a1
    /\ ret.changefreq = Str("weekly")
    /\ ret.priority = IF HoldsBlogSegment(call.a1) THEN Num("0.8") ELSE Num("0.7")

(* A blog page under the German prefix, given priority 0.8. *)
C21_Witness ==
  /\ call.fn = "serialize"
  /\ call.a1 = "https://varij.dev/de/blog/reverse-string-java/"
  /\ ret.val = call.a1
  /\ ret.changefreq = Str("weekly")
  /\ ret.priority = Num("0.8")

====
